---------------------------- MODULE Spec2Model ----------------------------
(***************************************************************************)
(* Model of the multilingual summarization task                            *)
(* fairseq/examples/summarization/tasks/                                   *)
(*     summarization_from_pretrained_mbart_joint.py                        *)
(*                                                                         *)
(* Strings whose characters matter (split names, language names, the       *)
(* valid_subset argument) are sequences of one-character strings, so that  *)
(* Python's substring test, str.replace, str.split and '+' are modelled    *)
(* character by character.  Datasets are the lazy wrapper objects of the   *)
(* framework: records naming the wrapped dataset, read through Item/DLen.  *)
(* Indices are 1-based here and 0-based in the code.                       *)
(***************************************************************************)
EXTENDS Integers, Sequences, FiniteSets, TLC

VARIABLES
    disk,       \* the set of indexed-dataset files that exist
    args,       \* the task's argument namespace (self.args), valid_subset included
    datasets,   \* self.datasets: split name -> dataset
    last,       \* the last load_dataset call: split, epoch, combine, result
    pre,        \* self.datasets and args.valid_subset as they were before that call
    loaded,     \* the splits load_dataset has returned normally for
    ncalls,     \* number of load_dataset calls made
    valid_subset0,  \* args.valid_subset as given on the command line
    lpargs,     \* arguments of a direct call of load_langpair_sumdataset
    lp          \* what that call produced

vars == <<disk, args, datasets, last, pre, loaded, ncalls, valid_subset0,
          lpargs, lp>>

---------------------------------------------------------------------------
(* Bounds *)

MaxShard == 3
MaxLen == 2
MaxCalls == 2

---------------------------------------------------------------------------
(* Python strings and lists *)

Min(a, b) == IF a <= b THEN a ELSE b

Max(a, b) == IF a >= b THEN a ELSE b

\* item[:n], negative n counting from the end
PySliceTo(item, n) ==
    IF n >= 0 THEN SubSeq(item, 1, Min(n, Len(item)))
    ELSE SubSeq(item, 1, Max(Len(item) + n, 0))

\* s[i:] with 1-based i
Drop(s, i) == SubSeq(s, i, Len(s))

\* s.startswith(sub) at 1-based position i
MatchAt(s, sub, i) ==
    /\ i >= 1
    /\ i + Len(sub) - 1 <= Len(s)
    /\ SubSeq(s, i, i + Len(sub) - 1) = sub

\* sub in s
StrIn(sub, s) == \E i \in 1..(Len(s) + 1) : MatchAt(s, sub, i)

RECURSIVE StrReplace(_, _, _)
\* s.replace(old, new) for a non-empty old: every occurrence, scanning left to right
StrReplace(s, old, new) ==
    IF Len(s) < Len(old) THEN s
    ELSE IF MatchAt(s, old, 1)
         THEN new \o StrReplace(Drop(s, Len(old) + 1), old, new)
         ELSE <<s[1]>> \o StrReplace(Drop(s, 2), old, new)

RECURSIVE StrJoin(_, _)
\* sep.join(parts)
StrJoin(sep, parts) ==
    IF parts = <<>> THEN <<>>
    ELSE IF Len(parts) = 1 THEN parts[1]
    ELSE parts[1] \o sep \o StrJoin(sep, Tail(parts))

RECURSIVE StrSplit(_, _)
\* s.split(sep) for a one-character sep
StrSplit(s, sep) ==
    IF \E i \in 1..Len(s) : s[i] = sep
    THEN LET i == CHOOSE j \in 1..Len(s) :
                      s[j] = sep /\ \A h \in 1..(j - 1) : s[h] # sep
         IN  <<SubSeq(s, 1, i - 1)>> \o StrSplit(Drop(s, i + 1), sep)
    ELSE <<s>>

\* str(k) for 0 <= k <= 9
Str(k) == <<ToString(k)>>

---------------------------------------------------------------------------
(* The dictionary shared by documents and summaries *)

en_XX == <<"e", "_", "X">>

zh_CN == <<"z", "_", "N">>

Languages == {en_XX, zh_CN}

\* '[{}]'.format(lang)
LangSymbol(lang) == <<"[">> \o lang \o <<"]">>

bos_index == 0

pad_index == 1

eos_index == 2

unk_index == 3

\* the symbol table after the parent task has added one '[lang]' symbol per language
indices ==
    [sym \in {<<"<s>">>, <<"<pad>">>, <<"</s>">>, <<"<unk>">>,
              LangSymbol(en_XX), LangSymbol(zh_CN)} |->
        CASE sym = <<"<s>">> -> bos_index
          [] sym = <<"<pad>">> -> pad_index
          [] sym = <<"</s>">> -> eos_index
          [] sym = <<"<unk>">> -> unk_index
          [] sym = LangSymbol(en_XX) -> 4
          [] sym = LangSymbol(zh_CN) -> 5]

\* Dictionary.index: the unknown-word index for a symbol that is not in the table
Index(sym) == IF sym \in DOMAIN indices THEN indices[sym] ELSE unk_index

---------------------------------------------------------------------------
(* Files on disk *)

\* os.path.join(data_path, '{}.{}-{}.{}'.format(split, a, b, lang))
Filename(data_path, split, a, b, lang) ==
    [dir |-> data_path, split |-> split, pair |-> <<a, b>>, lang |-> lang]

\* indexed_dataset.dataset_exists
dataset_exists(filename) == filename \in disk

\* The corpus: a file of split name n holds MaxLen + 2 - Len(n) examples (at
\* least one); example j is j - 1 words followed by the end-of-sentence token,
\* the word naming the language directory and the side.
NumExamples(filename) == Max(MaxLen + 2 - Len(filename.split), 1)

Word(filename) ==
    20 + (IF filename.dir[2] = <<"e">> THEN 0 ELSE 2)
       + (IF filename.lang = "doc" THEN 0 ELSE 1)

RawItem(filename, j) == [p \in 1..(j - 1) |-> Word(filename)] \o <<eos_index>>

None == [kind |-> "None"]

\* data_utils.load_indexed_dataset: None when the file does not exist
load_indexed_dataset(filename) ==
    IF dataset_exists(filename)
    THEN [kind |-> "IndexedDataset", path |-> filename]
    ELSE None

---------------------------------------------------------------------------
(* The framework's dataset wrappers *)

RECURSIVE StripTrailing(_, _)
StripTrailing(item, id) ==
    IF Len(item) > 0 /\ item[Len(item)] = id
    THEN StripTrailing(SubSeq(item, 1, Len(item) - 1), id)
    ELSE item

RECURSIVE StripLeading(_, _)
StripLeading(item, id) ==
    IF Len(item) > 0 /\ item[1] = id
    THEN StripLeading(Tail(item), id)
    ELSE item

RECURSIVE SumSeq(_)
SumSeq(s) == IF s = <<>> THEN 0 ELSE s[1] + SumSeq(Tail(s))

RECURSIVE DLen(_)
\* len(dataset)
DLen(d) ==
    CASE d.kind = "IndexedDataset" -> NumExamples(d.path)
      [] d.kind = "ConcatDataset" ->
            SumSeq([j \in 1..Len(d.datasets) |->
                        d.sample_ratios[j] * DLen(d.datasets[j])])
      [] d.kind = "LanguagePairDataset" -> DLen(d.src)
      [] OTHER -> DLen(d.dataset)

\* ConcatDataset.cumulative_sizes
CumulativeSizes(d) ==
    [j \in 1..Len(d.datasets) |->
        SumSeq([h \in 1..j |-> d.sample_ratios[h] * DLen(d.datasets[h])])]

\* bisect.bisect_right(a, x) on a sorted list
BisectRight(a, x) == Cardinality({j \in 1..Len(a) : a[j] <= x})

RECURSIVE Item(_, _)
\* dataset[i - 1]
Item(d, i) ==
    CASE d.kind = "IndexedDataset" -> RawItem(d.path, i)
      [] d.kind = "ConcatDataset" ->
            LET cum == CumulativeSizes(d)
                idx == i - 1
                dataset_idx == BisectRight(cum, idx)
                sample_idx == IF dataset_idx = 0 THEN idx
                              ELSE idx - cum[dataset_idx]
                real == DLen(d.datasets[dataset_idx + 1])
            IN  Item(d.datasets[dataset_idx + 1], (sample_idx % real) + 1)
      [] d.kind = "PrependTokenDataset" -> <<d.token>> \o Item(d.dataset, i)
      [] d.kind = "AppendTokenDataset" -> Item(d.dataset, i) \o <<d.token>>
      [] d.kind = "StripTokenDataset" ->
            StripLeading(StripTrailing(Item(d.dataset, i), d.id_to_strip),
                         d.id_to_strip)
      [] d.kind = "TruncateDataset" ->
            LET item == Item(d.dataset, i)
            IN  IF Len(item) > d.truncation_length
                THEN PySliceTo(item, d.truncation_length)
                ELSE item
      [] d.kind = "LanguagePairDataset" ->
            [source |-> Item(d.src, i),
             target |-> IF d.tgt = None THEN <<>> ELSE Item(d.tgt, i),
             has_target |-> d.tgt # None]
      [] d.kind = "SortDataset" -> Item(d.dataset, i)

ConcatDataset(ds, sample_ratios) ==
    [kind |-> "ConcatDataset", datasets |-> ds, sample_ratios |-> sample_ratios]

PrependTokenDataset(d, token) ==
    [kind |-> "PrependTokenDataset", dataset |-> d, token |-> token]

AppendTokenDataset(d, token) ==
    [kind |-> "AppendTokenDataset", dataset |-> d, token |-> token]

StripTokenDataset(d, id_to_strip) ==
    [kind |-> "StripTokenDataset", dataset |-> d, id_to_strip |-> id_to_strip]

TruncateDataset(d, truncation_length) ==
    [kind |-> "TruncateDataset", dataset |-> d,
     truncation_length |-> truncation_length]

LanguagePairDataset(src, tgt, eos) ==
    [kind |-> "LanguagePairDataset", src |-> src, tgt |-> tgt, eos |-> eos]

SortDataset(d, sort_order) ==
    [kind |-> "SortDataset", dataset |-> d, sort_order |-> sort_order]

---------------------------------------------------------------------------
(* load_langpair_sumdataset *)

\* split_exists(split, src, tgt, lang, data_path)
split_exists(split, src, tgt, lang, data_path) ==
    dataset_exists(Filename(data_path, split, src, tgt, lang))

\* split + (str(k) if k > 0 else '')
SplitK(split, k) == split \o (IF k > 0 THEN Str(k) ELSE <<>>)

\* ShardPrefix with the two namings tried in the other order
ShardPrefixSecondNamingFirst(data_path, split_k, src, tgt) ==
    IF split_exists(split_k, tgt, src, src, data_path) THEN <<tgt, src>>
    ELSE IF split_exists(split_k, src, tgt, src, data_path) THEN <<src, tgt>>
    ELSE <<>>

\* The naming under which shard split_k is found: <<src, tgt>> first, then
\* <<tgt, src>>; <<>> when the source-side file exists under neither.
ShardPrefix(data_path, split_k, src, tgt) ==
    IF split_exists(split_k, src, tgt, src, data_path) THEN <<src, tgt>>
    ELSE IF split_exists(split_k, tgt, src, src, data_path) THEN <<tgt, src>>
    ELSE <<>>

\* What the iteration for an existing shard appends to tgt_datasets
AppendTarget(tgt_datasets, tgt_dataset) ==
    IF tgt_dataset # None THEN Append(tgt_datasets, tgt_dataset) ELSE tgt_datasets

RECURSIVE ShardLoop(_, _, _, _, _, _, _, _)
\* The loop "for k in itertools.count()" from iteration k on: the two lists
\* when the loop is left, or the FileNotFoundError of a missing first shard.
ShardLoop(k, src_datasets, tgt_datasets, data_path, split, src, tgt, combine) ==
    LET split_k == SplitK(split, k)
        prefix == ShardPrefix(data_path, split_k, src, tgt)
    IN  IF prefix = <<>>
        THEN IF k > 0
             THEN [error |-> "none", src_datasets |-> src_datasets,
                   tgt_datasets |-> tgt_datasets]
             ELSE [error |-> "FileNotFoundError", src_datasets |-> <<>>,
                   tgt_datasets |-> <<>>]
        ELSE LET src_dataset == load_indexed_dataset(
                     Filename(data_path, split_k, prefix[1], prefix[2], src))
                 tgt_dataset == load_indexed_dataset(
                     Filename(data_path, split_k, prefix[1], prefix[2], tgt))
                 srcs == Append(src_datasets, src_dataset)
                 tgts == AppendTarget(tgt_datasets, tgt_dataset)
             IN  IF ~combine
                 THEN [error |-> "none", src_datasets |-> srcs,
                       tgt_datasets |-> tgts]
                 ELSE ShardLoop(k + 1, srcs, tgts, data_path, split, src, tgt,
                                combine)

\* assert len(src_datasets) == len(tgt_datasets) or len(tgt_datasets) == 0
ShardAssertion(src_datasets, tgt_datasets) ==
    Len(src_datasets) = Len(tgt_datasets) \/ Len(tgt_datasets) = 0

\* sample_ratios = [1] * len(src_datasets); sample_ratios[0] = upsample_primary
SampleRatios(n, upsample_primary) ==
    [j \in 1..n |-> IF j = 1 THEN upsample_primary ELSE 1]

\* The source and target datasets before any token is added
CombineShards(src_datasets, tgt_datasets, upsample_primary) ==
    IF Len(src_datasets) = 1
    THEN [src |-> src_datasets[1],
          tgt |-> IF Len(tgt_datasets) > 0 THEN tgt_datasets[1] ELSE None]
    ELSE LET sample_ratios == SampleRatios(Len(src_datasets), upsample_primary)
         IN  [src |-> ConcatDataset(src_datasets, sample_ratios),
              tgt |-> IF Len(tgt_datasets) > 0
                      THEN ConcatDataset(tgt_datasets, sample_ratios)
                      ELSE None]

\* if prepend_bos: ...
PrependBos(d, prepend_bos) ==
    IF prepend_bos
    THEN [src |-> PrependTokenDataset(d.src, bos_index),
          tgt |-> IF d.tgt # None THEN PrependTokenDataset(d.tgt, bos_index)
                  ELSE None]
    ELSE d

\* TruncLen without the token kept free for the language id
TruncLenNoLanguageId(max_source_positions, append_source_id) ==
    max_source_positions

\* trunc_len = max_source_positions-1 if append_source_id else max_source_positions
TruncLen(max_source_positions, append_source_id) ==
    IF append_source_id THEN max_source_positions - 1 ELSE max_source_positions

\* if truncate_source: ...
TruncateSource(src_dataset, truncate_source, max_source_positions, append_source_id) ==
    IF truncate_source
    THEN LET trunc_len == TruncLen(max_source_positions, append_source_id)
         IN  AppendTokenDataset(
                 TruncateDataset(StripTokenDataset(src_dataset, eos_index),
                                 trunc_len - 1),
                 eos_index)
    ELSE src_dataset

\* if append_source_id: the source, the target and the eos of the pair dataset
\* (eos 0 - 1 stands for None)
AppendSourceId(src_dataset, tgt_dataset, append_source_id, trg_prepend, src_lang, tgt_lang) ==
    IF append_source_id
    THEN [src |-> AppendTokenDataset(src_dataset, Index(LangSymbol(src_lang))),
          tgt |-> IF tgt_dataset # None
                  THEN AppendTokenDataset(
                           IF trg_prepend
                           THEN PrependTokenDataset(tgt_dataset,
                                                    Index(LangSymbol(tgt_lang)))
                           ELSE tgt_dataset,
                           Index(LangSymbol(tgt_lang)))
                  ELSE None,
          eos |-> Index(LangSymbol(tgt_lang))]
    ELSE [src |-> src_dataset, tgt |-> tgt_dataset, eos |-> 0 - 1]

\* load_langpair_sumdataset: the error raised ("none" when it returns), the two
\* shard lists as they are when the loop is left, and the returned dataset
load_langpair_sumdataset(data_path, split, src, src_lang, tgt, tgt_lang, combine, upsample_primary, max_source_positions, prepend_bos, truncate_source, append_source_id, trg_prepend) ==
    LET loop == ShardLoop(0, <<>>, <<>>, data_path, split, src, tgt, combine)
    IN  IF loop.error # "none"
        THEN [error |-> loop.error, src_datasets |-> <<>>,
              tgt_datasets |-> <<>>, dataset |-> None]
        ELSE IF ~ShardAssertion(loop.src_datasets, loop.tgt_datasets)
        THEN [error |-> "AssertionError", src_datasets |-> loop.src_datasets,
              tgt_datasets |-> loop.tgt_datasets, dataset |-> None]
        ELSE LET combined == CombineShards(loop.src_datasets,
                                           loop.tgt_datasets, upsample_primary)
                 withbos == PrependBos(combined, prepend_bos)
                 truncated == TruncateSource(withbos.src, truncate_source,
                                             max_source_positions,
                                             append_source_id)
                 withid == AppendSourceId(truncated, withbos.tgt,
                                          append_source_id, trg_prepend,
                                          src_lang, tgt_lang)
             IN  [error |-> "none", src_datasets |-> loop.src_datasets,
                  tgt_datasets |-> loop.tgt_datasets,
                  dataset |-> LanguagePairDataset(withid.src, withid.tgt,
                                                  withid.eos)]

---------------------------------------------------------------------------
(* SummarizationFromPretrainedMBARTTaskJoint *)

\* self.langs_for_summ = args.langs_for_sum.split(",")
langs_for_summ == StrSplit(args.langs_for_sum, ",")

\* paths = self.args.data.split(':'); data_path = paths[(epoch - 1) % len(paths)]
DataPath(epoch) == args.data[((epoch - 1) % Len(args.data)) + 1]

\* code = lang.split('_')[0]; lang_path = os.path.join(data_path, code)
LangPath(data_path, lang) == <<data_path, StrSplit(lang, "_")[1]>>

\* SrcLang with --fix2x ignored
SrcLangOfLanguage(lang) == lang

\* srclang: args.fix2x when it is not '', the language itself otherwise
SrcLang(lang) == IF args.fix2x # <<>> THEN args.fix2x ELSE lang

\* The call of load_langpair_sumdataset that load_dataset makes for one language
LoadLang(lang, split, epoch, combine) ==
    load_langpair_sumdataset(
        LangPath(DataPath(epoch), lang), split,
        args.source_lang, SrcLang(lang), args.target_lang, lang,
        combine, args.upsample_primary, args.max_source_positions,
        FALSE, args.truncate_source, TRUE, args.trg_prepend)

RECURSIVE LangLoop(_, _, _, _, _)
\* "for lang in languages" from position j on: the list of per-language
\* datasets, or the error that ends the call
LangLoop(j, lang_datasets, split, epoch, combine) ==
    IF j > Len(langs_for_summ)
    THEN [error |-> "none", lang_datasets |-> lang_datasets]
    ELSE LET r == LoadLang(langs_for_summ[j], split, epoch, combine)
         IN  IF r.error # "none"
             THEN [error |-> r.error, lang_datasets |-> <<>>]
             ELSE LangLoop(j + 1, Append(lang_datasets, r.dataset), split,
                           epoch, combine)

\* split_name = split + '_' + languages[lang_id]
SplitName(split, lang) == split \o <<"_">> \o lang

\* lang_splits: split, then one split name per language
LangSplits(split) ==
    <<split>> \o [j \in 1..Len(langs_for_summ) |->
                     SplitName(split, langs_for_summ[j])]

\* d[key] = value on a dict
SetItem(d, key, value) ==
    [k \in DOMAIN d \cup {key} |-> IF k = key THEN value ELSE d[k]]

RECURSIVE RegisterLangs(_, _, _, _)
\* "for lang_id, lang_dataset in enumerate(lang_datasets)" from position j on
RegisterLangs(d, j, split, lang_datasets) ==
    IF j > Len(lang_datasets) THEN d
    ELSE RegisterLangs(
             SetItem(d, SplitName(split, langs_for_summ[j]), lang_datasets[j]),
             j + 1, split, lang_datasets)

\* UpdateValidSubset with lang_splits started empty instead of with the split
UpdateValidSubsetLangsOnly(valid_subset, split) ==
    IF StrIn(split, valid_subset)
    THEN StrReplace(valid_subset, split,
                    StrJoin(<<",">>, Tail(LangSplits(split))))
    ELSE valid_subset

\* if split in valid_subset: valid_subset.replace(split, ','.join(lang_splits))
UpdateValidSubset(valid_subset, split) ==
    IF StrIn(split, valid_subset)
    THEN StrReplace(valid_subset, split, StrJoin(<<",">>, LangSplits(split)))
    ELSE valid_subset

RECURSIVE DSize(_, _)
\* dataset.sizes[i - 1]
DSize(d, i) ==
    CASE d.kind = "IndexedDataset" -> Len(RawItem(d.path, i))
      [] d.kind = "ConcatDataset" ->
            LET cum == CumulativeSizes(d)
                dataset_idx == BisectRight(cum, i - 1)
                sample_idx == IF dataset_idx = 0 THEN i - 1
                              ELSE i - 1 - cum[dataset_idx]
                real == DLen(d.datasets[dataset_idx + 1])
            IN  DSize(d.datasets[dataset_idx + 1], (sample_idx % real) + 1)
      [] d.kind = "PrependTokenDataset" -> DSize(d.dataset, i) + 1
      [] d.kind = "AppendTokenDataset" -> DSize(d.dataset, i) + 1
      [] d.kind = "StripTokenDataset" -> DSize(d.dataset, i)
      [] d.kind = "TruncateDataset" ->
            Min(DSize(d.dataset, i), d.truncation_length)
      [] d.kind = "LanguagePairDataset" ->
            IF d.tgt = None THEN <<DSize(d.src, i)>>
            ELSE <<DSize(d.src, i), DSize(d.tgt, i)>>
      [] d.kind = "SortDataset" -> DSize(d.dataset, i)

\* np.random.permutation(n) under numpy_seed(seed): the generator is not
\* modelled; a rotation fixed by the seed stands for the permutation drawn.
Permutation(seed, n) == [i \in 1..n |-> ((i - 1 + seed) % n) + 1]

\* Register without the last assignment, self.datasets[split] = dataset
RegisterSorted(split, epoch, lang_datasets) ==
    LET dataset == ConcatDataset(lang_datasets,
                                 [j \in 1..Len(lang_datasets) |-> 1])
        d1 == RegisterLangs(datasets, 1, split, lang_datasets)
        shuffle == Permutation(args.seed + epoch, DLen(dataset))
    IN  [datasets |-> SetItem(d1, split,
                          SortDataset(dataset,
                              <<shuffle,
                                [i \in 1..DLen(dataset) |-> DSize(dataset, i)]>>)),
         valid_subset |-> UpdateValidSubset(args.valid_subset, split)]

\* The statements of load_dataset after the language loop: self.datasets and
\* args.valid_subset when the call returns
Register(split, epoch, lang_datasets) ==
    LET dataset == ConcatDataset(lang_datasets,
                                 [j \in 1..Len(lang_datasets) |-> 1])
        d1 == RegisterLangs(datasets, 1, split, lang_datasets)
        valid_subset == UpdateValidSubset(args.valid_subset, split)
        shuffle == Permutation(args.seed + epoch, DLen(dataset))
        d2 == SetItem(d1, split,
                      SortDataset(dataset,
                          <<shuffle,
                            [i \in 1..DLen(dataset) |-> DSize(dataset, i)]>>))
        d3 == SetItem(d2, split, dataset)
    IN  [datasets |-> d3, valid_subset |-> valid_subset]

\* load_dataset(split, epoch, combine)
LoadDataset(split, epoch, combine) ==
    /\ ncalls < MaxCalls
    /\ LET r == LangLoop(1, <<>>, split, epoch, combine)
       IN  /\ IF r.error = "none"
              THEN LET reg == Register(split, epoch, r.lang_datasets)
                   IN  /\ datasets' = reg.datasets
                       /\ args' = [args EXCEPT !.valid_subset = reg.valid_subset]
                       /\ loaded' = loaded \cup {split}
              ELSE UNCHANGED <<datasets, args, loaded>>
           /\ last' = [split |-> split, epoch |-> epoch, combine |-> combine,
                       result |-> r.error]
    /\ pre' = [datasets |-> datasets, valid_subset |-> args.valid_subset,
                loaded |-> loaded]
    /\ ncalls' = ncalls + 1
    /\ UNCHANGED <<disk, valid_subset0, lpargs, lp>>

\* A direct call of load_langpair_sumdataset with the arguments lpargs
CallLoadLangpair ==
    /\ lp.error = "not called"
    /\ lp' = load_langpair_sumdataset(
                 lpargs.data_path, lpargs.split, "doc", lpargs.src_lang,
                 "sum", lpargs.tgt_lang, lpargs.combine,
                 lpargs.upsample_primary, lpargs.max_source_positions,
                 lpargs.prepend_bos, lpargs.truncate_source,
                 lpargs.append_source_id, lpargs.trg_prepend)
    /\ UNCHANGED <<disk, args, datasets, last, pre, loaded, ncalls,
                   valid_subset0, lpargs>>

---------------------------------------------------------------------------
(* Inputs *)

Splits == {<<"v">>, <<"v", "1">>}

Epochs == {1, 2}

Namings == {<<"doc", "sum">>, <<"sum", "doc">>}

\* The ways one shard can be on disk under one naming: not at all, the
\* document side alone, both sides
ShardFiles(data_path, name, pair) ==
    {{},
     {Filename(data_path, name, pair[1], pair[2], "doc")},
     {Filename(data_path, name, pair[1], pair[2], "doc"),
      Filename(data_path, name, pair[1], pair[2], "sum")}}

RECURSIVE DirLayouts(_, _, _)
\* Every way the shards named in the list names can be on disk in one directory
DirLayouts(data_path, names, namings) ==
    IF names = <<>> THEN {{}}
    ELSE IF namings = <<>> THEN DirLayouts(data_path, Tail(names), <<>>)
    ELSE {a \cup b \cup c :
            a \in ShardFiles(data_path, names[1], namings[1]),
            b \in IF Len(namings) > 1
                  THEN ShardFiles(data_path, names[1], namings[2])
                  ELSE {{}},
            c \in DirLayouts(data_path, Tail(names), namings)}

\* split, split1, ..., split<MaxShard>
ShardNames(split) == [k \in 1..(MaxShard + 1) |-> SplitK(split, k - 1)]

DefaultArgs ==
    [data |-> <<"d1">>, source_lang |-> "doc", target_lang |-> "sum",
     langs_for_sum |-> en_XX, fix2x |-> <<>>, trg_prepend |-> FALSE,
     truncate_source |-> FALSE, max_source_positions |-> 1024,
     upsample_primary |-> 1, seed |-> 1, valid_subset |-> <<"v">>]

NoCall ==
    [error |-> "not called", src_datasets |-> <<>>, tgt_datasets |-> <<>>,
     dataset |-> None]

NoLpArgs ==
    [data_path |-> <<"d1", <<"e">>>>, split |-> <<"v">>, src_lang |-> en_XX,
     tgt_lang |-> en_XX, combine |-> FALSE, upsample_primary |-> 1,
     max_source_positions |-> 1024, prepend_bos |-> FALSE,
     truncate_source |-> FALSE, append_source_id |-> TRUE,
     trg_prepend |-> FALSE]

TaskIdle ==
    /\ datasets = <<>>
    /\ last = [split |-> <<>>, epoch |-> 0, combine |-> FALSE,
               result |-> "not called"]
    /\ pre = [datasets |-> <<>>, valid_subset |-> args.valid_subset,
               loaded |-> {}]
    /\ valid_subset0 = args.valid_subset
    /\ loaded = {}
    /\ ncalls = 0

\* Bookkeeping inputs: which shards of the splits v and v1 exist for each
\* language, the languages, the validation subsets
BookkeepingInputs ==
    /\ disk \in {a \cup b :
                   a \in DirLayouts(<<"d1", <<"e">>>>, <<<<"v">>, <<"v", "1">>>>,
                                    <<<<"doc", "sum">>>>),
                   b \in DirLayouts(<<"d1", <<"z">>>>, <<<<"v">>, <<"v", "1">>>>,
                                    <<<<"doc", "sum">>>>)}
    /\ args \in {[DefaultArgs EXCEPT !.langs_for_sum = l, !.valid_subset = v] :
                   l \in {en_XX, en_XX \o <<",">> \o zh_CN,
                          zh_CN \o <<",">> \o en_XX},
                   v \in {<<"v">>, <<"v", ",", "v", "1">>, <<"t">>}}

\* A corpus of two English shards and one Chinese shard (stored under the
\* sum-doc naming), with its summaries or without them
FullCorpus(with_targets) ==
    LET sides == IF with_targets THEN {"doc", "sum"} ELSE {"doc"}
    IN  {Filename(<<"d1", <<"e">>>>, n, "doc", "sum", side) :
            n \in {<<"v">>, <<"v", "1">>}, side \in sides}
        \cup {Filename(<<"d1", <<"z">>>>, <<"v">>, "sum", "doc", side) :
                side \in sides}

\* Token inputs: the arguments that decide which tokens surround a sequence,
\* and one or two data paths (the corpus is under d1; nothing is under d2)
TokenInputs ==
    /\ disk \in {FullCorpus(TRUE), FullCorpus(FALSE)}
    /\ args \in {[DefaultArgs EXCEPT !.langs_for_sum = en_XX \o <<",">> \o zh_CN,
                                     !.data = d,
                                     !.fix2x = f, !.trg_prepend = p,
                                     !.truncate_source = t,
                                     !.max_source_positions = m,
                                     !.upsample_primary = u] :
                   d \in {<<"d1">>, <<"d1", "d2">>},
                   f \in {<<>>, zh_CN}, p \in BOOLEAN, t \in BOOLEAN,
                   m \in {MaxLen + 1, 1024}, u \in {1, 2}}

Init ==
    /\ BookkeepingInputs \/ TokenInputs
    /\ TaskIdle
    /\ lpargs = NoLpArgs
    /\ lp = NoCall

Next == \E split \in Splits, epoch \in Epochs, combine \in BOOLEAN :
            LoadDataset(split, epoch, combine)

Spec == Init /\ [][Next]_vars

\* Shard inputs of a direct call: every way the shards v, v1, ... can be on
\* disk (the document side alone only under the doc-sum naming), combine and
\* upsample_primary
ShardInputs ==
    /\ disk \in {a \cup b :
                   a \in DirLayouts(<<"d1", <<"e">>>>, ShardNames(<<"v">>),
                                    <<<<"doc", "sum">>>>),
                   b \in {c \in DirLayouts(<<"d1", <<"e">>>>,
                                           ShardNames(<<"v">>),
                                           <<<<"sum", "doc">>>>) :
                            \A f \in c : Filename(f.dir, f.split, "sum", "doc",
                                                  "sum") \in c}}
    /\ lpargs \in {[NoLpArgs EXCEPT !.combine = c, !.upsample_primary = u] :
                     c \in BOOLEAN, u \in {1, 2}}

\* Token inputs of a direct call: one or two shards, with or without
\* summaries, and every argument that adds or cuts tokens
LpTokenInputs ==
    /\ disk \in {{Filename(<<"d1", <<"e">>>>, n, "doc", "sum", side) :
                     n \in names, side \in sides} :
                   names \in {{<<"v">>}, {<<"v">>, <<"v", "1">>}},
                   sides \in {{"doc"}, {"doc", "sum"}}}
    /\ lpargs \in {[NoLpArgs EXCEPT !.src_lang = sl, !.tgt_lang = tl,
                                    !.combine = TRUE,
                                    !.max_source_positions = m,
                                    !.prepend_bos = b, !.truncate_source = t,
                                    !.append_source_id = a,
                                    !.trg_prepend = p] :
                     sl \in Languages, tl \in Languages, m \in 1..(MaxLen + 2),
                     b \in BOOLEAN, t \in BOOLEAN, a \in BOOLEAN,
                     p \in BOOLEAN}

InitLP ==
    /\ ShardInputs \/ LpTokenInputs
    /\ args = DefaultArgs
    /\ TaskIdle
    /\ lp = NoCall

NextLP == CallLoadLangpair

SpecLP == InitLP /\ [][NextLP]_vars

---------------------------------------------------------------------------
(* Properties of load_dataset *)

\* The last call of load_dataset returned normally
Returned == last.result = "none"

\* The languages of --langs-for-sum, in order
L == langs_for_summ

\* The dataset load_langpair_sumdataset returns for the j-th language under the
\* arguments of the last call
PerLang(j) == LoadLang(L[j], last.split, last.epoch, last.combine).dataset

\* Number of examples of the languages before the j-th
Offset(j) == SumSeq([h \in 1..(j - 1) |-> DLen(PerLang(h))])

\* C1: after a successful load_dataset(split) the dataset registered under
\* split is the concatenation of the per-language datasets in list order: its
\* length is the sum of their lengths, its i-th example is the example of the
\* language whose cumulative range contains i, and the j-th per-language
\* dataset is registered unchanged under split + '_' + Lj.
C1_SplitIsConcatenation ==
    Returned =>
        LET D == datasets[last.split]
        IN  /\ D.kind = "ConcatDataset"
            /\ D.datasets = [j \in 1..Len(L) |-> PerLang(j)]
            /\ DLen(D) = SumSeq([j \in 1..Len(L) |-> DLen(PerLang(j))])
            /\ \A i \in 1..DLen(D) :
                 \E j \in 1..Len(L) :
                    /\ Offset(j) < i
                    /\ i <= Offset(j) + DLen(PerLang(j))
                    /\ Item(D, i) = Item(PerLang(j), i - Offset(j))
            /\ \A j \in 1..Len(L) :
                 LET key == last.split \o <<"_">> \o L[j]
                 IN  key \in DOMAIN datasets /\ datasets[key] = PerLang(j)

\* Two languages, the first of several upsampled shards, loaded into one split
C1_Witness ==
    /\ Returned
    /\ Len(L) = 2
    /\ last.combine
    /\ args.upsample_primary = 2
    /\ DLen(PerLang(1)) > NumExamples([split |-> last.split])
    /\ DLen(datasets[last.split]) > DLen(PerLang(1))

\* C4: when load_dataset returns, the dataset registered under split is the
\* SortDataset over the concatenation, ordered by the permutation drawn under
\* seed + epoch and by the example sizes.
C4_SplitIsShuffledView ==
    Returned =>
        LET D == datasets[last.split]
        IN  /\ D.kind = "SortDataset"
            /\ D.dataset.kind = "ConcatDataset"
            /\ D.sort_order[1] =
                   Permutation(args.seed + last.epoch, DLen(D.dataset))

\* s has an occurrence of sub starting at position p
OccursAt(s, sub, p) ==
    /\ p + Len(sub) - 1 <= Len(s)
    /\ \A h \in 1..Len(sub) : s[p + h - 1] = sub[h]

\* t is s with the occurrences of old (taken from the left, not overlapping)
\* replaced by new
ReplacedBy(s, old, new, t) ==
    LET taken[p \in 1..Len(s)] ==
            /\ OccursAt(s, old, p)
            /\ \A q \in Max(1, p - Len(old) + 1)..(p - 1) : ~taken[q]
        P == {p \in 1..Len(s) : taken[p]}
        shift(i) == Cardinality({p \in P : p < i}) * (Len(new) - Len(old))
    IN  /\ Len(t) = Len(s) + Cardinality(P) * (Len(new) - Len(old))
        /\ \A i \in 1..Len(s) :
             (\A p \in P : i < p \/ i >= p + Len(old)) => t[i + shift(i)] = s[i]
        /\ \A p \in P : \A h \in 1..Len(new) : t[p + shift(p) + h - 1] = new[h]

RECURSIVE CommaList(_, _)
\* split,split_L1,...,split_Ln for the languages from position j on
CommaList(split, j) ==
    IF j > Len(L) THEN <<>>
    ELSE <<",">> \o split \o <<"_">> \o L[j] \o CommaList(split, j + 1)

\* C5: a successful load_dataset(split) leaves args.valid_subset equal to the
\* old value with split replaced by split,split_L1,...,split_Ln when split
\* occurs in the old value, and unchanged when it does not.
C5_ValidSubsetBookkeeping ==
    Returned =>
        IF \E p \in 1..Len(pre.valid_subset) :
               OccursAt(pre.valid_subset, last.split, p)
        THEN ReplacedBy(pre.valid_subset, last.split,
                        last.split \o CommaList(last.split, 1),
                        args.valid_subset)
        ELSE args.valid_subset = pre.valid_subset

\* The split loaded occurs twice in the old valid_subset, two languages
C5_Witness ==
    /\ Returned
    /\ Len(L) = 2
    /\ Cardinality({p \in 1..Len(pre.valid_subset) :
                       OccursAt(pre.valid_subset, last.split, p)}) = 2
    /\ args.valid_subset # pre.valid_subset

\* The first shard of the split is missing under both namings for language lang
FirstShardMissing(lang) ==
    LET dir == <<args.data[((last.epoch - 1) % Len(args.data)) + 1],
                 StrSplit(lang, "_")[1]>>
    IN  /\ Filename(dir, last.split, "doc", "sum", "doc") \notin disk
        /\ Filename(dir, last.split, "sum", "doc", "doc") \notin disk

\* C8: if the first shard is missing under both namings for some language,
\* load_dataset fails with FileNotFoundError and leaves self.datasets and
\* args.valid_subset as they were; a missing later shard is never an error.
C8_MissingFirstShard ==
    last.result # "not called" =>
        /\ (\E j \in 1..Len(L) : FirstShardMissing(L[j])) =>
               /\ last.result = "FileNotFoundError"
               /\ datasets = pre.datasets
               /\ args.valid_subset = pre.valid_subset
        /\ last.result = "FileNotFoundError" =>
               \E j \in 1..Len(L) : FirstShardMissing(L[j])

\* The comma-separated names of a valid_subset value
Names(valid_subset) ==
    LET parts == StrSplit(valid_subset, ",")
    IN  {parts[j] : j \in 1..Len(parts)}

\* C9: once every name of the given valid_subset has been loaded, every name
\* of args.valid_subset is a key of self.datasets; and loading a split a
\* second time leaves args.valid_subset as it was.
C9_ValidSubsetNamesAreKeys ==
    /\ Names(valid_subset0) \subseteq loaded =>
           Names(args.valid_subset) \subseteq DOMAIN datasets
    /\ (Returned /\ last.split \in pre.loaded) =>
           args.valid_subset = pre.valid_subset

\* The language id a source sequence of language lang must end with
SourceId(lang) ==
    Index(<<"[">> \o (IF args.fix2x # <<>> THEN args.fix2x ELSE lang) \o <<"]">>)

\* The language id of the summaries of language lang
TargetId(lang) == Index(<<"[">> \o lang \o <<"]">>)

\* C2: for every language loaded and every example of it, the source ends
\* with the id of args.fix2x when that is not empty and of the language
\* otherwise; a target ends with the id of the language, begins with it
\* exactly when trg_prepend is set; the eos id of the pair dataset is the id
\* of the language.
C2_LanguageIdTokens ==
    Returned =>
        \A j \in 1..Len(L) :
            LET D == datasets[last.split \o <<"_">> \o L[j]]
            IN  /\ D.eos = TargetId(L[j])
                /\ \A i \in 1..DLen(D) :
                     LET ex == Item(D, i)
                     IN  /\ ex.source[Len(ex.source)] = SourceId(L[j])
                         /\ ex.has_target =>
                              /\ ex.target[Len(ex.target)] = TargetId(L[j])
                              /\ (ex.target[1] = TargetId(L[j]))
                                     <=> args.trg_prepend

\* Summaries loaded with trg_prepend and a fixed source language
C2_Witness ==
    /\ Returned
    /\ args.fix2x = zh_CN
    /\ args.trg_prepend
    /\ \E i \in 1..DLen(datasets[last.split \o <<"_">> \o en_XX]) :
          LET ex == Item(datasets[last.split \o <<"_">> \o en_XX], i)
          IN  ex.has_target /\ Len(ex.target) > 3

---------------------------------------------------------------------------
(* Properties of load_langpair_sumdataset *)

\* The shard loop of the direct call was left without FileNotFoundError
LoopEnded == lp.error \in {"none", "AssertionError"}

\* The file of side lang of shard k under the naming pair
ShardFile(k, pair, lang) ==
    Filename(lpargs.data_path, SplitK(lpargs.split, k), pair[1], pair[2], lang)

\* Shard k exists: its document-side file is there under one of the namings
ShardExists(k) == \E pair \in Namings : ShardFile(k, pair, "doc") \in disk

\* The naming shard k is read under
NamingOf(k) ==
    IF ShardFile(k, <<"doc", "sum">>, "doc") \in disk THEN <<"doc", "sum">>
    ELSE <<"sum", "doc">>

RECURSIVE Base(_)
\* The dataset under the token wrappers
Base(d) ==
    IF d.kind \in {"ConcatDataset", "IndexedDataset"} THEN d ELSE Base(d.dataset)

\* C3: shards are visited as split, split1, split2, ...; a shard is accepted
\* when its document-side file exists under the doc-sum or the sum-doc naming,
\* the first winning; with combine the shards loaded are the maximal run
\* 0..m of existing shards, without combine shard 0 alone; when several are
\* loaded, shard 0 has sample ratio upsample_primary and the others 1, for
\* documents and summaries alike.
C3_ShardDiscovery ==
    LoopEnded =>
        LET n == Len(lp.src_datasets)
            ratios == [j \in 1..n |->
                          IF j = 1 THEN lpargs.upsample_primary ELSE 1]
        IN  /\ n >= 1
            /\ \A k \in 0..(n - 1) :
                 /\ ShardExists(k)
                 /\ lp.src_datasets[k + 1].path = ShardFile(k, NamingOf(k), "doc")
            /\ lpargs.combine => ~ShardExists(n)
            /\ ~lpargs.combine => n = 1
            /\ (lp.error = "none" /\ n > 1) =>
                 /\ Base(lp.dataset.src).kind = "ConcatDataset"
                 /\ Base(lp.dataset.src).datasets = lp.src_datasets
                 /\ Base(lp.dataset.src).sample_ratios = ratios
                 /\ lp.dataset.tgt # None =>
                      /\ Base(lp.dataset.tgt).datasets = lp.tgt_datasets
                      /\ Base(lp.dataset.tgt).sample_ratios = ratios

\* Shards 0 and 1 loaded, shard 2 missing, shard 3 on disk and not loaded;
\* shard 0 on disk under both namings
C3_Witness ==
    /\ lp.error = "none"
    /\ lpargs.combine
    /\ lpargs.upsample_primary = 2
    /\ Len(lp.src_datasets) = 2
    /\ lp.dataset.tgt # None
    /\ ShardExists(3)
    /\ \A pair \in Namings : ShardFile(0, pair, "doc") \in disk

\* C7: whenever the shard loop ends without FileNotFoundError, the number of
\* target shards loaded is 0 or the number of source shards loaded.
C7_ShardCountsAgree ==
    LoopEnded =>
        \/ Len(lp.tgt_datasets) = 0
        \/ Len(lp.tgt_datasets) = Len(lp.src_datasets)

\* The document of example i before any token is added or removed by the
\* call, without its end-of-sentence token
Words(i) ==
    LET raw == Item(CombineShards(lp.src_datasets, lp.tgt_datasets,
                                  lpargs.upsample_primary).src, i)
    IN  SubSeq(raw, 1, Len(raw) - 1)

\* What C6 says the source of example i is
TruncatedSource(i) ==
    LET content == (IF lpargs.prepend_bos THEN <<bos_index>> ELSE <<>>)
                       \o Words(i)
    IN  SubSeq(content, 1,
               Min(Len(content), lpargs.max_source_positions - 2))
            \o <<eos_index, Index(<<"[">> \o lpargs.src_lang \o <<"]">>)>>

\* The direct call returned, with truncate_source and append_source_id set
TruncatingCall ==
    /\ lp.error = "none"
    /\ lpargs.truncate_source
    /\ lpargs.append_source_id

\* C6 as stated: with truncate_source and append_source_id every source has at
\* most max_source_positions tokens: the content (a prepended bos included,
\* eos excluded) cut to max_source_positions - 2 tokens, then eos, then the
\* source language id.
C6_TruncatedSourceFits ==
    TruncatingCall =>
        \A i \in 1..DLen(lp.dataset) :
            /\ Len(Item(lp.dataset, i).source) <= lpargs.max_source_positions
            /\ Item(lp.dataset, i).source = TruncatedSource(i)

\* C6 as amended: the same for max_source_positions >= 2.
C6_TruncatedSourceFitsFrom2 ==
    (TruncatingCall /\ lpargs.max_source_positions >= 2) =>
        \A i \in 1..DLen(lp.dataset) :
            /\ Len(Item(lp.dataset, i).source) <= lpargs.max_source_positions
            /\ Item(lp.dataset, i).source = TruncatedSource(i)

\* A document with a prepended bos that is cut
C6_Witness ==
    /\ TruncatingCall
    /\ lpargs.max_source_positions = 3
    /\ lpargs.prepend_bos
    /\ \E i \in 1..DLen(lp.dataset) :
          /\ Len(Words(i)) >= 2
          /\ Len(Item(lp.dataset, i).source) = 3

=============================================================================
